---- MODULE Spec2Model ----
(***************************************************************************)
(* Model of src/horoscope_mailer.py: the Telugu daily-horoscope mailer.    *)
(*                                                                         *)
(* PanchangCalculator, DynamicPredictionEngine and                         *)
(* TeluguHoroscopeSystem.calculate_rashi_from_dob are pure functions of    *)
(* their arguments; they are operators here, computed the way the code     *)
(* computes them, and the actions of the specification call them on        *)
(* inputs drawn from bounded sets.                                         *)
(*                                                                         *)
(* Telugu text is transliterated to ASCII: every distinct source string    *)
(* has its own distinct transliteration, so equality of strings is         *)
(* preserved.                                                              *)
(***************************************************************************)
EXTENDS Integers, Sequences, FiniteSets, TLC

VARIABLES
    pc,                 \* "idle", or which call has just been made
    rashi,              \* argument rashi of the call
    date,               \* argument date of the call
    weekday,            \* its local weekday (line 196), or the argument of generate_daily_remedies
    favorability_score, \* its local favorability_score (lines 204-218), or the argument
                        \* score of generate_lucky_elements
    tone,               \* its local tone (lines 221-226), or the argument of generate_daily_remedies
    parts,              \* its local prediction_parts when it is joined (line 281)
    remedies,           \* the list generate_daily_remedies returned (line 284)
    lucky_data,         \* the Dict generate_lucky_elements returned (line 287)
    result,             \* the Dict generate_daily_prediction returned (lines 289-300)
    dob,                \* argument dob of the last calculate_rashi_from_dob call
    dob_rashi,          \* the sign that call returned
    bpc,                \* where send_daily_horoscopes is: "idle", "looping", "returned" or "raised"
    users,              \* its argument users
    today,              \* its local today (line 586)
    idx,                \* how many users the for loop has taken (line 592)
    success_count,      \* its local success_count (line 587)
    log,                \* what it did for each user so far, in order
    returned            \* the value it returned (line 619)

engine_vars == << pc, rashi, date, weekday, favorability_score, tone, parts, remedies,
                 lucky_data, result, dob, dob_rashi >>

batch_vars == << bpc, users, today, idx, success_count, log, returned >>

vars == << engine_vars, batch_vars >>

-----------------------------------------------------------------------------
(* Bounds of the model.                                                    *)

\* Dates are drawn from the days at most WindowDays before or after one of
\* the two reference dates of the code (2000-01-01 and 2024-01-11).
WindowDays == 40

\* The user list of one send_daily_horoscopes call has at most MaxUsers records.
MaxUsers == 3

\* That call runs on a day at most MaxTodayOffset days from 2024-01-11.
MaxTodayOffset == 1

-----------------------------------------------------------------------------
(* datetime.date: a date is a record [year, month, day]; differences of    *)
(* dates are differences of proleptic Gregorian ordinals, as in CPython.   *)

IsLeap(y) == (y % 4 = 0) /\ ((y % 100 # 0) \/ (y % 400 = 0))

DaysInMonth(y, m) ==
    IF m = 2 THEN (IF IsLeap(y) THEN 29 ELSE 28)
    ELSE IF m \in {4, 6, 9, 11} THEN 30 ELSE 31

DaysBeforeYear(y) ==
    (y - 1) * 365 + ((y - 1) \div 4) - ((y - 1) \div 100) + ((y - 1) \div 400)

RECURSIVE DaysBeforeMonth(_, _)
DaysBeforeMonth(y, m) ==
    IF m = 1 THEN 0 ELSE DaysBeforeMonth(y, m - 1) + DaysInMonth(y, m - 1)

\* date.toordinal()
ToOrdinal(d) == DaysBeforeYear(d.year) + DaysBeforeMonth(d.year, d.month) + d.day

\* (a - b).days
DaysBetween(a, b) == ToOrdinal(a) - ToOrdinal(b)

\* date.weekday(): Monday = 0 .. Sunday = 6
Weekday(d) == (ToOrdinal(d) + 6) % 7

MkDate(y, m, d) == [year |-> y, month |-> m, day |-> d]

Digit(n) == <<"0", "1", "2", "3", "4", "5", "6", "7", "8", "9">>[n + 1]

\* str(n) for 0 <= n <= 9999, without padding
RECURSIVE IntToStr(_)
IntToStr(n) == IF n < 10 THEN Digit(n) ELSE IntToStr(n \div 10) \o Digit(n % 10)

\* str(date): ISO format YYYY-MM-DD, zero padded
DateStr(d) ==
    Digit((d.year \div 1000) % 10) \o Digit((d.year \div 100) % 10)
        \o Digit((d.year \div 10) % 10) \o Digit(d.year % 10)
    \o "-" \o Digit(d.month \div 10) \o Digit(d.month % 10)
    \o "-" \o Digit(d.day \div 10) \o Digit(d.day % 10)

\* datetime.date(2024, 1, 11), the reference new moon of get_tithi and get_moon_phase
reference_date == MkDate(2024, 1, 11)

\* datetime.date(2000, 1, 1), the epoch of get_nakshatra
epoch_date == MkDate(2000, 1, 1)

CalendarDates ==
    { MkDate(y, m, d) : y \in {1999, 2000, 2023, 2024}, m \in 1..12, d \in 1..31 }

Abs(n) == IF n < 0 THEN -n ELSE n

\* The dates the calls are made with: valid calendar dates near a reference date.
Dates ==
    { d \in CalendarDates :
        /\ d.day <= DaysInMonth(d.year, d.month)
        /\ \/ Abs(DaysBetween(d, reference_date)) <= WindowDays
           \/ Abs(DaysBetween(d, epoch_date)) <= WindowDays }

-----------------------------------------------------------------------------
(* hashlib.md5(str(date).encode()).hexdigest()[:8]                         *)
(* The first 8 hexadecimal digits of the MD5 digest of each date string,   *)
(* computed with hashlib and tabulated (each digit as its value 0..15).    *)

md5_hexdigest8 ==
    { <<"1999-11-17", <<8, 11, 9, 14, 14, 1, 3, 12>>>>,
      <<"1999-11-18", <<15, 0, 5, 3, 15, 1, 0, 12>>>>,
      <<"1999-11-19", <<6, 7, 2, 6, 11, 9, 10, 2>>>>,
      <<"1999-11-20", <<9, 3, 11, 10, 7, 11, 4, 8>>>>,
      <<"1999-11-21", <<15, 4, 12, 14, 3, 2, 10, 14>>>>,
      <<"1999-11-22", <<8, 4, 3, 10, 3, 14, 9, 2>>>>,
      <<"1999-11-23", <<2, 1, 9, 3, 11, 2, 1, 13>>>>,
      <<"1999-11-24", <<9, 5, 11, 15, 11, 15, 14, 0>>>>,
      <<"1999-11-25", <<1, 9, 13, 0, 11, 6, 8, 0>>>>,
      <<"1999-11-26", <<12, 7, 12, 3, 7, 10, 0, 8>>>>,
      <<"1999-11-27", <<6, 10, 12, 9, 10, 3, 3, 14>>>>,
      <<"1999-11-28", <<15, 5, 7, 11, 15, 15, 7, 6>>>>,
      <<"1999-11-29", <<9, 1, 10, 15, 13, 13, 1, 3>>>>,
      <<"1999-11-30", <<14, 14, 4, 2, 12, 4, 6, 8>>>>,
      <<"1999-12-01", <<14, 3, 9, 7, 13, 6, 7, 7>>>>,
      <<"1999-12-02", <<7, 3, 8, 7, 4, 13, 13, 7>>>>,
      <<"1999-12-03", <<5, 3, 11, 14, 13, 3, 11, 2>>>>,
      <<"1999-12-04", <<6, 2, 2, 15, 3, 8, 14, 5>>>>,
      <<"1999-12-05", <<4, 4, 0, 12, 14, 14, 13, 8>>>>,
      <<"1999-12-06", <<15, 5, 6, 15, 5, 8, 4, 8>>>>,
      <<"1999-12-07", <<2, 2, 0, 9, 8, 6, 7, 0>>>>,
      <<"1999-12-08", <<15, 9, 13, 7, 0, 7, 7, 0>>>>,
      <<"1999-12-09", <<13, 6, 13, 9, 12, 11, 14, 8>>>>,
      <<"1999-12-10", <<5, 4, 14, 15, 4, 5, 13, 13>>>>,
      <<"1999-12-11", <<2, 3, 2, 15, 7, 2, 9, 9>>>>,
      <<"1999-12-12", <<5, 4, 9, 3, 14, 8, 1, 4>>>>,
      <<"1999-12-13", <<11, 9, 8, 2, 0, 12, 1, 2>>>>,
      <<"1999-12-14", <<11, 14, 2, 2, 9, 13, 15, 7>>>>,
      <<"1999-12-15", <<1, 9, 13, 0, 13, 13, 1, 1>>>>,
      <<"1999-12-16", <<10, 12, 15, 13, 12, 11, 15, 9>>>>,
      <<"1999-12-17", <<6, 9, 12, 4, 0, 6, 14, 10>>>>,
      <<"1999-12-18", <<9, 9, 8, 6, 11, 13, 10, 4>>>>,
      <<"1999-12-19", <<10, 12, 12, 15, 7, 1, 5, 6>>>>,
      <<"1999-12-20", <<1, 5, 1, 5, 1, 5, 10, 9>>>>,
      <<"1999-12-21", <<14, 8, 11, 1, 2, 6, 14, 7>>>>,
      <<"1999-12-22", <<10, 11, 13, 5, 13, 12, 13, 0>>>>,
      <<"1999-12-23", <<9, 9, 6, 7, 6, 2, 8, 8>>>>,
      <<"1999-12-24", <<0, 2, 5, 4, 12, 15, 2, 9>>>>,
      <<"1999-12-25", <<7, 8, 13, 0, 0, 15, 11, 6>>>>,
      <<"1999-12-26", <<0, 15, 9, 0, 3, 14, 7, 10>>>>,
      <<"1999-12-27", <<3, 8, 6, 7, 9, 9, 2, 15>>>>,
      <<"1999-12-28", <<14, 15, 5, 12, 11, 9, 15, 6>>>>,
      <<"1999-12-29", <<5, 0, 11, 4, 0, 6, 6, 13>>>>,
      <<"1999-12-30", <<7, 14, 11, 10, 15, 4, 8, 2>>>>,
      <<"1999-12-31", <<1, 10, 13, 12, 4, 8, 7, 3>>>>,
      <<"2000-01-01", <<13, 10, 11, 5, 7, 3, 11, 0>>>>,
      <<"2000-01-02", <<13, 6, 1, 1, 1, 10, 0, 2>>>>,
      <<"2000-01-03", <<7, 3, 1, 8, 8, 3, 7, 12>>>>,
      <<"2000-01-04", <<7, 7, 12, 3, 15, 5, 3, 4>>>>,
      <<"2000-01-05", <<1, 15, 13, 3, 4, 15, 15, 14>>>>,
      <<"2000-01-06", <<9, 4, 7, 14, 5, 15, 3, 12>>>>,
      <<"2000-01-07", <<13, 8, 13, 3, 4, 14, 6, 9>>>>,
      <<"2000-01-08", <<3, 15, 2, 12, 7, 9, 14, 15>>>>,
      <<"2000-01-09", <<12, 12, 5, 9, 14, 8, 9, 13>>>>,
      <<"2000-01-10", <<7, 9, 5, 7, 1, 8, 2, 10>>>>,
      <<"2000-01-11", <<15, 1, 15, 5, 2, 6, 11, 5>>>>,
      <<"2000-01-12", <<11, 11, 8, 3, 15, 11, 1, 2>>>>,
      <<"2000-01-13", <<11, 6, 3, 2, 6, 4, 4, 10>>>>,
      <<"2000-01-14", <<12, 13, 10, 0, 3, 2, 11, 8>>>>,
      <<"2000-01-15", <<1, 0, 2, 9, 9, 14, 15, 15>>>>,
      <<"2000-01-16", <<14, 5, 3, 8, 8, 3, 10, 9>>>>,
      <<"2000-01-17", <<6, 4, 11, 9, 9, 8, 6, 2>>>>,
      <<"2000-01-18", <<7, 2, 10, 2, 10, 11, 11, 10>>>>,
      <<"2000-01-19", <<4, 8, 11, 14, 10, 2, 8, 8>>>>,
      <<"2000-01-20", <<11, 7, 0, 0, 3, 2, 8, 4>>>>,
      <<"2000-01-21", <<6, 0, 11, 10, 4, 11, 9, 4>>>>,
      <<"2000-01-22", <<13, 10, 13, 8, 0, 13, 6, 9>>>>,
      <<"2000-01-23", <<5, 0, 2, 6, 1, 6, 8, 5>>>>,
      <<"2000-01-24", <<0, 13, 14, 11, 0, 4, 12, 13>>>>,
      <<"2000-01-25", <<11, 0, 5, 2, 2, 7, 8, 8>>>>,
      <<"2000-01-26", <<4, 0, 5, 6, 8, 6, 3, 3>>>>,
      <<"2000-01-27", <<14, 7, 13, 11, 15, 7, 12, 0>>>>,
      <<"2000-01-28", <<0, 8, 2, 14, 11, 6, 0, 8>>>>,
      <<"2000-01-29", <<4, 7, 14, 11, 8, 4, 7, 4>>>>,
      <<"2000-01-30", <<7, 13, 10, 14, 1, 11, 9, 14>>>>,
      <<"2000-01-31", <<1, 4, 13, 11, 12, 5, 15, 4>>>>,
      <<"2000-02-01", <<5, 14, 3, 12, 5, 4, 5, 11>>>>,
      <<"2000-02-02", <<6, 15, 4, 5, 8, 6, 15, 6>>>>,
      <<"2000-02-03", <<9, 1, 8, 14, 9, 13, 4, 15>>>>,
      <<"2000-02-04", <<4, 13, 7, 9, 0, 14, 1, 7>>>>,
      <<"2000-02-05", <<6, 6, 15, 0, 8, 5, 0, 14>>>>,
      <<"2000-02-06", <<5, 4, 6, 7, 9, 15, 2, 1>>>>,
      <<"2000-02-07", <<15, 14, 6, 9, 5, 14, 11, 8>>>>,
      <<"2000-02-08", <<13, 1, 2, 1, 8, 3, 3, 12>>>>,
      <<"2000-02-09", <<10, 12, 8, 4, 9, 11, 3, 2>>>>,
      <<"2000-02-10", <<13, 9, 6, 11, 14, 14, 3, 4>>>>,
      <<"2000-02-11", <<3, 1, 6, 0, 6, 4, 10, 0>>>>,
      <<"2000-02-12", <<2, 3, 15, 7, 6, 3, 9, 12>>>>,
      <<"2000-02-13", <<15, 8, 2, 9, 4, 4, 7, 6>>>>,
      <<"2000-02-14", <<15, 4, 0, 4, 8, 8, 10, 13>>>>,
      <<"2000-02-15", <<5, 7, 0, 5, 2, 7, 3, 13>>>>,
      <<"2023-11-27", <<14, 7, 9, 10, 9, 11, 6, 14>>>>,
      <<"2023-11-28", <<9, 6, 8, 0, 8, 8, 7, 9>>>>,
      <<"2023-11-29", <<0, 11, 0, 2, 10, 7, 10, 1>>>>,
      <<"2023-11-30", <<4, 6, 6, 9, 8, 11, 1, 12>>>>,
      <<"2023-12-01", <<8, 4, 0, 8, 12, 3, 10, 7>>>>,
      <<"2023-12-02", <<11, 12, 1, 5, 15, 9, 2, 9>>>>,
      <<"2023-12-03", <<8, 9, 10, 14, 6, 6, 8, 11>>>>,
      <<"2023-12-04", <<12, 3, 14, 8, 10, 14, 1, 0>>>>,
      <<"2023-12-05", <<15, 9, 5, 10, 14, 0, 0, 2>>>>,
      <<"2023-12-06", <<11, 7, 9, 11, 7, 3, 6, 13>>>>,
      <<"2023-12-07", <<2, 10, 2, 10, 0, 5, 2, 3>>>>,
      <<"2023-12-08", <<12, 11, 3, 11, 11, 2, 4, 4>>>>,
      <<"2023-12-09", <<14, 7, 1, 5, 6, 6, 12, 1>>>>,
      <<"2023-12-10", <<6, 11, 10, 2, 11, 14, 14, 0>>>>,
      <<"2023-12-11", <<14, 6, 14, 6, 10, 10, 3, 7>>>>,
      <<"2023-12-12", <<9, 8, 9, 7, 13, 8, 13, 15>>>>,
      <<"2023-12-13", <<10, 1, 5, 10, 12, 0, 1, 6>>>>,
      <<"2023-12-14", <<0, 13, 15, 8, 3, 9, 10, 5>>>>,
      <<"2023-12-15", <<8, 15, 2, 13, 3, 0, 7, 15>>>>,
      <<"2023-12-16", <<8, 4, 3, 15, 12, 3, 3, 0>>>>,
      <<"2023-12-17", <<13, 11, 7, 5, 14, 1, 4, 11>>>>,
      <<"2023-12-18", <<12, 3, 8, 3, 2, 7, 0, 3>>>>,
      <<"2023-12-19", <<9, 11, 13, 10, 5, 13, 14, 9>>>>,
      <<"2023-12-20", <<15, 2, 4, 1, 7, 10, 1, 1>>>>,
      <<"2023-12-21", <<13, 12, 2, 15, 9, 1, 3, 11>>>>,
      <<"2023-12-22", <<3, 9, 0, 1, 4, 3, 0, 5>>>>,
      <<"2023-12-23", <<7, 12, 13, 14, 9, 2, 1, 4>>>>,
      <<"2023-12-24", <<1, 1, 10, 8, 1, 11, 1, 9>>>>,
      <<"2023-12-25", <<1, 4, 5, 2, 7, 12, 2, 2>>>>,
      <<"2023-12-26", <<15, 3, 5, 4, 4, 8, 6, 2>>>>,
      <<"2023-12-27", <<4, 4, 0, 10, 3, 13, 12, 0>>>>,
      <<"2023-12-28", <<13, 11, 13, 10, 4, 8, 2, 6>>>>,
      <<"2023-12-29", <<6, 3, 6, 14, 3, 15, 4, 8>>>>,
      <<"2023-12-30", <<10, 9, 9, 14, 14, 6, 6, 10>>>>,
      <<"2023-12-31", <<9, 2, 1, 7, 9, 2, 14, 11>>>>,
      <<"2024-01-01", <<15, 8, 6, 7, 15, 4, 11, 1>>>>,
      <<"2024-01-02", <<10, 14, 3, 5, 4, 10, 0, 12>>>>,
      <<"2024-01-03", <<7, 0, 10, 1, 2, 3, 7, 4>>>>,
      <<"2024-01-04", <<9, 10, 8, 14, 15, 7, 15, 6>>>>,
      <<"2024-01-05", <<3, 2, 3, 12, 5, 1, 1, 7>>>>,
      <<"2024-01-06", <<8, 3, 12, 8, 8, 8, 14, 0>>>>,
      <<"2024-01-07", <<10, 12, 5, 1, 15, 15, 13, 14>>>>,
      <<"2024-01-08", <<6, 6, 15, 3, 11, 11, 5, 6>>>>,
      <<"2024-01-09", <<4, 8, 2, 6, 0, 8, 15, 4>>>>,
      <<"2024-01-10", <<4, 10, 12, 9, 11, 12, 5, 3>>>>,
      <<"2024-01-11", <<6, 7, 5, 12, 6, 1, 10, 7>>>>,
      <<"2024-01-12", <<11, 3, 1, 15, 10, 12, 1, 2>>>>,
      <<"2024-01-13", <<1, 1, 6, 8, 3, 13, 5, 3>>>>,
      <<"2024-01-14", <<10, 13, 15, 7, 2, 4, 5, 8>>>>,
      <<"2024-01-15", <<0, 4, 9, 3, 6, 7, 1, 8>>>>,
      <<"2024-01-16", <<3, 8, 11, 11, 3, 4, 15, 14>>>>,
      <<"2024-01-17", <<15, 15, 4, 0, 8, 3, 13, 8>>>>,
      <<"2024-01-18", <<11, 14, 13, 7, 2, 6, 10, 6>>>>,
      <<"2024-01-19", <<6, 1, 11, 0, 4, 13, 10, 9>>>>,
      <<"2024-01-20", <<11, 9, 15, 4, 14, 7, 2, 6>>>>,
      <<"2024-01-21", <<5, 4, 8, 10, 14, 5, 11, 3>>>>,
      <<"2024-01-22", <<3, 9, 8, 2, 10, 12, 4, 0>>>>,
      <<"2024-01-23", <<8, 12, 10, 0, 4, 3, 13, 1>>>>,
      <<"2024-01-24", <<1, 12, 0, 6, 8, 13, 2, 12>>>>,
      <<"2024-01-25", <<9, 5, 7, 14, 4, 15, 1, 11>>>>,
      <<"2024-01-26", <<14, 1, 14, 5, 11, 1, 12, 13>>>>,
      <<"2024-01-27", <<13, 15, 12, 7, 15, 2, 4, 9>>>>,
      <<"2024-01-28", <<12, 11, 8, 11, 1, 9, 10, 6>>>>,
      <<"2024-01-29", <<11, 10, 5, 4, 14, 2, 1, 7>>>>,
      <<"2024-01-30", <<15, 3, 1, 15, 4, 9, 6, 12>>>>,
      <<"2024-01-31", <<8, 7, 5, 1, 12, 10, 1, 0>>>>,
      <<"2024-02-01", <<8, 15, 2, 7, 0, 11, 14, 12>>>>,
      <<"2024-02-02", <<3, 7, 7, 8, 3, 13, 0, 11>>>>,
      <<"2024-02-03", <<4, 13, 13, 6, 12, 11, 15, 7>>>>,
      <<"2024-02-04", <<7, 8, 15, 4, 1, 15, 4, 3>>>>,
      <<"2024-02-05", <<9, 3, 14, 1, 2, 10, 12, 10>>>>,
      <<"2024-02-06", <<2, 2, 5, 12, 0, 4, 14, 1>>>>,
      <<"2024-02-07", <<13, 9, 14, 15, 12, 2, 14, 7>>>>,
      <<"2024-02-08", <<10, 13, 8, 9, 14, 13, 12, 9>>>>,
      <<"2024-02-09", <<10, 1, 1, 2, 13, 2, 14, 4>>>>,
      <<"2024-02-10", <<4, 3, 0, 10, 10, 14, 4, 4>>>>,
      <<"2024-02-11", <<8, 1, 4, 13, 4, 6, 8, 12>>>>,
      <<"2024-02-12", <<9, 3, 8, 10, 12, 12, 2, 13>>>>,
      <<"2024-02-13", <<2, 5, 4, 9, 0, 2, 8, 9>>>>,
      <<"2024-02-14", <<0, 15, 6, 9, 10, 1, 2, 1>>>>,
      <<"2024-02-15", <<10, 5, 8, 0, 4, 2, 7, 11>>>>,
      <<"2024-02-16", <<0, 7, 8, 15, 12, 3, 15, 12>>>>,
      <<"2024-02-17", <<9, 0, 6, 2, 9, 13, 3, 8>>>>,
      <<"2024-02-18", <<12, 8, 5, 9, 11, 8, 6, 8>>>>,
      <<"2024-02-19", <<11, 10, 14, 0, 12, 1, 10, 3>>>>,
      <<"2024-02-20", <<1, 11, 2, 1, 9, 9, 9, 6>>>>,
      <<"2024-02-21", <<12, 13, 6, 14, 0, 15, 15, 3>>>>,
      <<"2024-02-22", <<1, 3, 13, 3, 2, 15, 8, 4>>>>,
      <<"2024-02-23", <<6, 10, 13, 9, 7, 6, 7, 13>>>>,
      <<"2024-02-24", <<1, 0, 1, 8, 8, 1, 14, 13>>>>,
      <<"2024-02-25", <<0, 14, 10, 1, 10, 15, 13, 5>>>> }

hexdigest8(s) == (CHOOSE e \in md5_hexdigest8 : e[1] = s)[2]

\* int(h, 16) % m, by Horner's rule (the value itself exceeds 32 bits signed)
RECURSIVE HexMod(_, _)
HexMod(h, m) ==
    IF h = << >> THEN 0
    ELSE (HexMod(SubSeq(h, 1, Len(h) - 1), m) * 16 + h[Len(h)]) % m

\* date_seed of lines 211 and 337, kept as its 8 hex digits
date_seed(d) == hexdigest8(DateStr(d))

\* date_seed % m
SeedMod(d, m) == HexMod(date_seed(d), m)

\* list.index(x): the first position (0-based) holding x
IndexOf(seq, x) == (CHOOSE i \in 1..Len(seq) :
                        seq[i] = x /\ \A j \in 1..(i - 1) : seq[j] # x) - 1

-----------------------------------------------------------------------------
(* class PanchangCalculator                                                *)

tithis ==
    << "Padyami", "Vidiya", "Tadiya", "Chaviti", "Panchami",
       "Shashti", "Saptami", "Ashtami", "Navami", "Dashami",
       "Ekadashi", "Dwadashi", "Trayodashi", "Chaturdashi", "Pournami/Amavasya" >>

nakshatras ==
    << "Ashwini", "Bharani", "Krittika", "Rohini", "Mrigashira",
       "Arudra", "Punarvasu", "Pushyami", "Ashlesha", "Makha",
       "Pubba", "Uttara", "Hasta", "Chitta", "Swati",
       "Vishakha", "Anuradha", "Jyeshtha", "Moola", "Purvashadha",
       "Uttarashadha", "Shravanam", "Dhanishtha", "Shatabhisham", "Purvabhadra",
       "Uttarabhadra", "Revati" >>

weekdays_telugu ==
    << "Somavaram", "Mangalavaram", "Budhavaram",
       "Guruvaram", "Shukravaram", "Shanivaram", "Adivaram" >>

\* lunar_day taken from the magnitude of the difference: wrong before the reference date
lunar_day_abs(d) == Abs(DaysBetween(d, reference_date)) % 30

\* lunar_day of get_tithi (line 46): Python's % with a positive divisor is
\* the floor modulus, which is TLA+'s %
lunar_day(d) == DaysBetween(d, reference_date) % 30

paksha(d) == IF lunar_day(d) < 15 THEN "Shukla Paksham" ELSE "Krishna Paksham"

tithi_index(d) == lunar_day(d) % 15

get_tithi(d) == paksha(d) \o " " \o tithis[tithi_index(d) + 1]

\* the index taken from the magnitude of the difference: wrong before the epoch
nakshatra_index_abs(d) == (Abs(DaysBetween(d, epoch_date)) * 13) % 27

nakshatra_index_of(d) == (DaysBetween(d, epoch_date) * 13) % 27

get_nakshatra(d) == nakshatras[nakshatra_index_of(d) + 1]

NEW_MOON == "Amavasya (New Moon)"
FULL_MOON == "Purti Chandrudu (Full Moon)"
WAXING == "Vardhamana Chandrudu (Waxing)"
WANING == "Kshininchu Chandrudu (Waning)"

\* phase = (days_diff % 30) / 30 is the rational k/30 with k in 0..29; the
\* decimal literals are compared exactly, in hundredths: k/30 < c/100 iff
\* 100*k < 30*c.  No k/30 is within 0.003 of a literal, so the float
\* comparisons of the code give the same answers.
PhaseLt(k, c) == 100 * k < 30 * c
PhaseGt(k, c) == 100 * k > 30 * c

\* the bands with the waxing test ahead of the full-moon test
moon_phase_waxing_first(k) ==
    IF PhaseLt(k, 3) \/ PhaseGt(k, 97) THEN NEW_MOON
    ELSE IF PhaseLt(k, 25) THEN WAXING
    ELSE IF PhaseGt(k, 22) /\ PhaseLt(k, 28) THEN FULL_MOON
    ELSE WANING

\* the bands with the new moon reaching down to 0.95 at the end of the cycle
moon_phase_new_above_95(k) ==
    IF PhaseLt(k, 3) \/ PhaseGt(k, 95) THEN NEW_MOON
    ELSE IF PhaseGt(k, 22) /\ PhaseLt(k, 28) THEN FULL_MOON
    ELSE IF PhaseLt(k, 25) THEN WAXING
    ELSE WANING

moon_phase_of(k) ==
    IF PhaseLt(k, 3) \/ PhaseGt(k, 97) THEN NEW_MOON
    ELSE IF PhaseGt(k, 22) /\ PhaseLt(k, 28) THEN FULL_MOON
    ELSE IF PhaseLt(k, 25) THEN WAXING
    ELSE WANING

\* days_diff % 30 of get_moon_phase (line 63)
moon_offset(d) == DaysBetween(d, reference_date) % 30

get_moon_phase(d) == moon_phase_of(moon_offset(d))

get_weekday_telugu(d) == weekdays_telugu[Weekday(d) + 1]

-----------------------------------------------------------------------------
(* Python helpers                                                          *)

\* dict.get(key, default)
DictGet(dict, key, default) == IF key \in DOMAIN dict THEN dict[key] ELSE default

\* x in list
InList(x, seq) == \E i \in 1..Len(seq) : seq[i] = x

\* list[:n]
Take(seq, n) == SubSeq(seq, 1, IF Len(seq) < n THEN Len(seq) ELSE n)

\* " ".join(parts)
RECURSIVE JoinSpace(_)
JoinSpace(fragments) ==
    IF fragments = << >> THEN ""
    ELSE IF Len(fragments) = 1 THEN fragments[1]
    ELSE fragments[1] \o " " \o JoinSpace(Tail(fragments))

-----------------------------------------------------------------------------
(* class DynamicPredictionEngine                                           *)

DEFAULT_RASHI == "Mesham"

rashi_base ==
    [ Vrishabham |-> [ element |-> "earth", lord |-> "venus", nature |-> "fixed",
                       favorable_days |-> <<4, 5>>,
                       areas |-> <<"finance", "family", "comfort", "relationships">> ],
      Simham     |-> [ element |-> "fire", lord |-> "sun", nature |-> "fixed",
                       favorable_days |-> <<6>>,
                       areas |-> <<"leadership", "career", "recognition", "authority">> ],
      Dhanussu   |-> [ element |-> "fire", lord |-> "jupiter", nature |-> "dual",
                       favorable_days |-> <<3>>,
                       areas |-> <<"education", "travel", "spirituality", "fortune">> ],
      Mesham     |-> [ element |-> "fire", lord |-> "mars", nature |-> "movable",
                       favorable_days |-> <<1, 6>>,
                       areas |-> <<"action", "courage", "initiative", "competition">> ],
      Mithunam   |-> [ element |-> "air", lord |-> "mercury", nature |-> "dual",
                       favorable_days |-> <<2>>,
                       areas |-> <<"communication", "learning", "networking", "versatility">> ],
      Karkatakam |-> [ element |-> "water", lord |-> "moon", nature |-> "movable",
                       favorable_days |-> <<0>>,
                       areas |-> <<"emotions", "home", "family", "nurturing">> ],
      Kanya      |-> [ element |-> "earth", lord |-> "mercury", nature |-> "dual",
                       favorable_days |-> <<2>>,
                       areas |-> <<"service", "health", "analysis", "perfection">> ],
      Tula       |-> [ element |-> "air", lord |-> "venus", nature |-> "movable",
                       favorable_days |-> <<4>>,
                       areas |-> <<"relationships", "balance", "art", "harmony">> ],
      Vrischikam |-> [ element |-> "water", lord |-> "mars", nature |-> "fixed",
                       favorable_days |-> <<1>>,
                       areas |-> <<"transformation", "intensity", "secrets", "power">> ],
      Makaram    |-> [ element |-> "earth", lord |-> "saturn", nature |-> "movable",
                       favorable_days |-> <<5>>,
                       areas |-> <<"discipline", "career", "ambition", "responsibility">> ],
      Kumbham    |-> [ element |-> "air", lord |-> "saturn", nature |-> "fixed",
                       favorable_days |-> <<5>>,
                       areas |-> <<"innovation", "social", "freedom", "uniqueness">> ],
      Meenam     |-> [ element |-> "water", lord |-> "jupiter", nature |-> "dual",
                       favorable_days |-> <<3>>,
                       areas |-> <<"spirituality", "compassion", "intuition", "dreams">> ] ]

\* Each template is the text before and the text after its {area} placeholder.
prediction_templates ==
    [ favorable |->
        << <<"Eeroju meeku anukulamaina roju. ", "lo manchi purogati untundi.">>,
           <<"", " vishayalalo vijayam sadhinche avakasalu unnayi.">>,
           <<"Eeroju ", "ku sambandhinchina karyakramalu shubhaphalitalistayi.">> >>,
      neutral |->
        << <<"", " vishayalalo sadharana paristhitulu untayi. Jagrattaga munduku sagandi.">>,
           <<"Eeroju ", "lo opika patinchandi. Manchi phalitalu ravocchu.">> >>,
      challenging |->
        << <<"", " vishayalalo jagratta avasaram. Tvarapadakunda nirnayalu tisukondi.">>,
           <<"Eeroju ", "lo addankulu eduravocchu. Dhairyanga edurkondi.">> >> ]

\* template.format(area=a)
Format(template, a) == template[1] \o a \o template[2]

\* rashi_info falling back to the first entry of rashi_base instead of Mesham
rashi_info_first_entry(r) == DictGet(rashi_base, r, rashi_base["Vrishabham"])

\* rashi_info (line 201)
rashi_info(r) == DictGet(rashi_base, r, rashi_base[DEFAULT_RASHI])

\* the weekday term of the score (lines 207-208)
weekday_term(r, d) ==
    IF InList(Weekday(d), rashi_info(r).favorable_days) THEN 3 ELSE 0

\* day_influence with the modulus off by one: -5 to +5
day_influence_mod11(d) == SeedMod(d, 11) - 5

\* day_influence (line 212): -5 to +4
day_influence(d) == SeedMod(d, 10) - 5

\* the asterism term of the score (lines 216-218)
nakshatra_term(d) ==
    IF IndexOf(nakshatras, get_nakshatra(d)) % 3 = 0 THEN 1 ELSE 0

\* favorability_score at line 220
score_of(r, d) == 0 + weekday_term(r, d) + day_influence(d) + nakshatra_term(d)

\* tone (lines 221-226)
tone_of(score) ==
    IF score >= 3 THEN "favorable"
    ELSE IF score <= -2 THEN "challenging"
    ELSE "neutral"

\* the label with a strict first threshold: disagrees with the tone at score 3
favorability_label_strict(score) ==
    IF score > 3 THEN "Anukulam"
    ELSE IF score <= -2 THEN "Jagratta"
    ELSE "Sadharanam"

\* the value of the "favorability" key (line 299)
favorability_label(score) ==
    IF score >= 3 THEN "Anukulam"
    ELSE IF score <= -2 THEN "Jagratta"
    ELSE "Sadharanam"

weekday_openings ==
    << "Somavaram chandruni prabhavamto mee manassu sthiranga untundi.",
       "Mangalavaram mangaluni shaktito meeku dhairyam, shakti labhistayi.",
       "Budhavaram budhuni ashissuto mee communication naipunyalu merugupadatayi.",
       "Guruvaram brihaspati devuni kripato jnanam, adrishtam perugutayi.",
       "Shukravaram shukruni prabhavamto sambandhalu, saundaryam perugutayi.",
       "Shanivaram shani devuni prabhavamto kashtapadi panicheyandi.",
       "Adivaram suryadevuni tejassuto mee vyaktitvam prakashistundi." >>

area_telugu_table ==
    [ finance |-> "Arthika", family |-> "Kutumba", career |-> "Vritti",
      education |-> "Vidya", health |-> "Arogya", relationships |-> "Sambandha",
      leadership |-> "Nayakatva", spirituality |-> "Adhyatmika",
      travel |-> "Prayana", communication |-> "Sambhashana",
      action |-> "Karya", service |-> "Seva", balance |-> "Samatulyata",
      transformation |-> "Parivartana", discipline |-> "Kramashikshana",
      innovation |-> "Avishkarana", compassion |-> "Karuna" ]

\* area_telugu (lines 245-253)
area_telugu(area) == DictGet(area_telugu_table, area, area)

nakshatra_effects ==
    [ Ashwini |-> "vegavantamaina purogati",
      Rohini |-> "sthiratvam mariyu vriddhi",
      Pushyami |-> "poshana mariyu shreyassu",
      Makha |-> "gauravam mariyu adhikaram",
      Hasta |-> "naipunyam mariyu srijanatmakata",
      Swati |-> "svatantrata mariyu sanukulata",
      Anuradha |-> "sneham mariyu sahakaram",
      Moola |-> "parivartana mariyu punadulu",
      Shravanam |-> "jnanam mariyu avagahana",
      Shatabhisham |-> "vaidyam mariyu rahasyalu",
      Revati |-> "karuna mariyu purnatvam" ]

FULL_MOON_SENTENCE == "Pournami yokka prabhavam mee bhavodvegalanu balaparustundi."
NEW_MOON_SENTENCE == "Amavasya samayam kotta prarambhalaku shubham."

\* "Purti Chandrudu" in moon_phase (line 276): of the four labels
\* get_moon_phase returns, only the full-moon label contains it
ContainsFullMoon(moon_phase) == moon_phase = FULL_MOON

\* "Amavasya" in moon_phase (line 278): only the new-moon label contains it
ContainsNewMoon(moon_phase) == moon_phase = NEW_MOON

\* the template both area sentences use (line 255)
template_of(t, d) ==
    prediction_templates[t][SeedMod(d, Len(prediction_templates[t])) + 1]

\* prediction_parts with the moon sentence appended ahead of the asterism sentence
prediction_parts_moon_first(r, d) ==
    LET t == tone_of(score_of(r, d))
        areas2 == Take(rashi_info(r).areas, 2)
        opening == << weekday_openings[Weekday(d) + 1] >>
        area_parts == [ i \in 1..Len(areas2) |->
                            Format(template_of(t, d), area_telugu(areas2[i])) ]
        nak == get_nakshatra(d)
        nak_part == IF nak \in DOMAIN nakshatra_effects
                    THEN << nak \o " nakshatram " \o nakshatra_effects[nak]
                                \o " testundi." >>
                    ELSE << >>
        moon == get_moon_phase(d)
        moon_part == IF ContainsFullMoon(moon) THEN << FULL_MOON_SENTENCE >>
                     ELSE IF ContainsNewMoon(moon) THEN << NEW_MOON_SENTENCE >>
                     ELSE << >>
    IN  opening \o area_parts \o moon_part \o nak_part

\* prediction_parts at line 281
prediction_parts(r, d) ==
    LET t == tone_of(score_of(r, d))
        areas2 == Take(rashi_info(r).areas, 2)
        opening == << weekday_openings[Weekday(d) + 1] >>
        area_parts == [ i \in 1..Len(areas2) |->
                            Format(template_of(t, d), area_telugu(areas2[i])) ]
        nak == get_nakshatra(d)
        nak_part == IF nak \in DOMAIN nakshatra_effects
                    THEN << nak \o " nakshatram " \o nakshatra_effects[nak]
                                \o " testundi." >>
                    ELSE << >>
        moon == get_moon_phase(d)
        moon_part == IF ContainsFullMoon(moon) THEN << FULL_MOON_SENTENCE >>
                     ELSE IF ContainsNewMoon(moon) THEN << NEW_MOON_SENTENCE >>
                     ELSE << >>
    IN  opening \o area_parts \o nak_part \o moon_part

weekday_remedies ==
    << << "Somavaram Shivudini pujinchandi", "Pala danam cheyandi",
          "Tella vastuvulu dharinchandi" >>,
       << "Mangalavaram Hanuman ji puja", "Erupu ginjalu danam",
          "Hanuman Chalisa parayana" >>,
       << "Budhavaram Vishnu murtini pujinchandi", "Pacchi mirapa danam",
          "Vidyarthulaku sahayam" >>,
       << "Guruvaram Brihaspati devudini pujinchandi", "Pasupu danam",
          "Guruvulanu gauravinchandi" >>,
       << "Shukravaram Mahalakshmi puja", "Tene danam",
          "Tella pulu arpinchandi" >>,
       << "Shanivaram Shani devudini namaskarinchandi", "Nallaginjalu danam",
          "Pedalaku sahayam" >>,
       << "Adivaram Suryudiki arghyam", "Godhumalu danam",
          "Pitrudevatalaku prarthana" >> >>

rashi_remedies ==
    [ Vrishabham |-> "Shukra mantram (Om Shukraya Namah) japinchandi",
      Simham |-> "Gayatri mantram parayana cheyandi",
      Dhanussu |-> "Vishnu Sahasranamam chadavandi" ]

FALLBACK_REMEDY == "Eeroju mee ishtadaivanni prarthinchandi - addankulu tolagipotayi"

\* the remedies without the [:2] slice of the weekday list
generate_daily_remedies_unsliced(r, w, t) ==
    weekday_remedies[w + 1]
        \o (IF r \in DOMAIN rashi_remedies THEN << rashi_remedies[r] >> ELSE << >>)
        \o (IF t = "challenging" THEN << FALLBACK_REMEDY >> ELSE << >>)

generate_daily_remedies(r, w, t) ==
    Take(weekday_remedies[w + 1], 2)
        \o (IF r \in DOMAIN rashi_remedies THEN << rashi_remedies[r] >> ELSE << >>)
        \o (IF t = "challenging" THEN << FALLBACK_REMEDY >> ELSE << >>)

rashi_colors ==
    [ Vrishabham |-> <<"Telupu", "Gulabi", "Akupaccha">>,
      Simham |-> <<"Bangaru", "Narinja", "Erupu">>,
      Dhanussu |-> <<"Pasupu", "Narinja", "Ooda">>,
      Mesham |-> <<"Erupu", "Narinja">>,
      Mithunam |-> <<"Akupaccha", "Pasupu">>,
      Karkatakam |-> <<"Telupu", "Vendi">>,
      Kanya |-> <<"Akupaccha", "Godhuma">>,
      Tula |-> <<"Gulabi", "Neelam">>,
      Vrischikam |-> <<"Erupu", "Nalupu">>,
      Makaram |-> <<"Nalupu", "Godhuma">>,
      Kumbham |-> <<"Neelam", "Violet">>,
      Meenam |-> <<"Pasupu", "Samudra Akupaccha">> ]

DEFAULT_COLORS == << "Telupu" >>

base_numbers == << 1, 2, 3, 4, 5, 6, 7, 8, 9 >>

time_slots ==
    << "Udayam 6:00 - 9:00", "Udayam 10:00 - 12:00", "Madhyahnam 12:00 - 3:00",
       "Sayantram 4:00 - 6:00", "Sayantram 6:00 - 8:00" >>

directions == << "Turpu", "Padamara", "Uttaram", "Dakshinam", "Ishanyam" >>

\* colors (line 355)
colors_of(r) == DictGet(rashi_colors, r, DEFAULT_COLORS)

\* the lucky number from the magnitude of day + score: wrong when it is negative
lucky_number_abs(d, score) == base_numbers[(Abs(d.day + score) % 9) + 1]

\* base_numbers[(date.day + score) % 9] (line 360), before str()
lucky_number_of(d, score) == base_numbers[((d.day + score) % 9) + 1]

generate_lucky_elements(r, d, score) ==
    [ lucky_color |-> colors_of(r)[SeedMod(d, Len(colors_of(r))) + 1],
      lucky_number |-> IntToStr(lucky_number_of(d, score)),
      lucky_time |-> time_slots[SeedMod(d, Len(time_slots)) + 1],
      lucky_direction |-> directions[SeedMod(d, Len(directions)) + 1] ]

generate_daily_prediction(r, d) ==
    LET score == score_of(r, d)
        t == tone_of(score)
        lucky == generate_lucky_elements(r, d, score)
    IN  [ prediction |-> JoinSpace(prediction_parts(r, d)),
          panchang |-> [ tithi |-> get_tithi(d),
                         nakshatra |-> get_nakshatra(d),
                         weekday |-> get_weekday_telugu(d),
                         moon_phase |-> get_moon_phase(d) ],
          lucky_color |-> lucky.lucky_color,
          lucky_number |-> lucky.lucky_number,
          lucky_time |-> lucky.lucky_time,
          lucky_direction |-> lucky.lucky_direction,
          remedies |-> generate_daily_remedies(r, Weekday(d), t),
          favorability |-> favorability_label(score) ]

-----------------------------------------------------------------------------
(* class TeluguHoroscopeSystem                                             *)

\* The validation table with the English name Aries accepted as a key too,
\* a key the engine's tables do not have.
rashi_mapping_with_alias ==
    [ Mesham |-> "Aries", Vrishabham |-> "Taurus", Mithunam |-> "Gemini",
      Karkatakam |-> "Cancer", Simham |-> "Leo", Kanya |-> "Virgo",
      Tula |-> "Libra", Vrischikam |-> "Scorpio", Dhanussu |-> "Sagittarius",
      Makaram |-> "Capricorn", Kumbham |-> "Aquarius", Meenam |-> "Pisces",
      Aries |-> "Aries" ]

rashi_mapping ==
    [ Mesham |-> "Aries", Vrishabham |-> "Taurus", Mithunam |-> "Gemini",
      Karkatakam |-> "Cancer", Simham |-> "Leo", Kanya |-> "Virgo",
      Tula |-> "Libra", Vrischikam |-> "Scorpio", Dhanussu |-> "Sagittarius",
      Makaram |-> "Capricorn", Kumbham |-> "Aquarius", Meenam |-> "Pisces" ]

\* The ranges with Mesham ending on 20 April, the day Vrishabham starts.
rashi_ranges_overlap ==
    << <<"Mesham", 3, 21, 4, 20>>,
       <<"Vrishabham", 4, 20, 5, 20>>,
       <<"Mithunam", 5, 21, 6, 20>>,
       <<"Karkatakam", 6, 21, 7, 22>>,
       <<"Simham", 7, 23, 8, 22>>,
       <<"Kanya", 8, 23, 9, 22>>,
       <<"Tula", 9, 23, 10, 22>>,
       <<"Vrischikam", 10, 23, 11, 21>>,
       <<"Dhanussu", 11, 22, 12, 21>>,
       <<"Makaram", 12, 22, 1, 19>>,
       <<"Kumbham", 1, 20, 2, 18>> >>

\* The eleven explicit ranges of calculate_rashi_from_dob, in the order the
\* if/elif chain tests them: <<sign, start month, start day, end month, end day>>.
rashi_ranges ==
    << <<"Mesham", 3, 21, 4, 19>>,
       <<"Vrishabham", 4, 20, 5, 20>>,
       <<"Mithunam", 5, 21, 6, 20>>,
       <<"Karkatakam", 6, 21, 7, 22>>,
       <<"Simham", 7, 23, 8, 22>>,
       <<"Kanya", 8, 23, 9, 22>>,
       <<"Tula", 9, 23, 10, 22>>,
       <<"Vrischikam", 10, 23, 11, 21>>,
       <<"Dhanussu", 11, 22, 12, 21>>,
       <<"Makaram", 12, 22, 1, 19>>,
       <<"Kumbham", 1, 20, 2, 18>> >>

\* the condition of one branch: (month == sm and day >= sd) or (month == em and day <= ed)
RangeMatches(rg, month, day) ==
    (month = rg[2] /\ day >= rg[3]) \/ (month = rg[4] /\ day <= rg[5])

\* the if/elif chain from branch i on; the final else returns Meenam
RECURSIVE rashi_chain(_, _, _)
rashi_chain(i, month, day) ==
    IF i > Len(rashi_ranges) THEN "Meenam"
    ELSE IF RangeMatches(rashi_ranges[i], month, day) THEN rashi_ranges[i][1]
    ELSE rashi_chain(i + 1, month, day)

calculate_rashi_from_dob(d) == rashi_chain(1, d.month, d.day)

-----------------------------------------------------------------------------
(* The state machine: a caller makes one call at a time.                   *)

\* The twelve recognized signs, and strings a caller may pass that are none of them.
Rashis == DOMAIN rashi_base
UnknownRashis == { "Aries", "mesham" }
RashiInputs == Rashis \cup UnknownRashis

Tones == { "favorable", "neutral", "challenging" }

\* Birth dates: every (month, day) of a leap year.
DobDates == { d \in CalendarDates : d.year = 2000 /\ d.day <= DaysInMonth(d.year, d.month) }

NoResult == [ prediction |-> "" ]
NoLucky == [ lucky_number |-> "" ]

Init ==
    /\ pc = "idle"
    /\ rashi = ""
    /\ date = reference_date
    /\ weekday = 0
    /\ favorability_score = 0
    /\ tone = ""
    /\ parts = << >>
    /\ remedies = << >>
    /\ lucky_data = NoLucky
    /\ result = NoResult
    /\ dob = reference_date
    /\ dob_rashi = ""
    /\ bpc = "idle"
    /\ users = << >>
    /\ today = reference_date
    /\ idx = 0
    /\ success_count = 0
    /\ log = << >>
    /\ returned = -1

\* engine.generate_daily_prediction(r, d)
GenerateDailyPrediction ==
    /\ pc = "idle"
    /\ \E r \in RashiInputs, d \in Dates :
        /\ rashi' = r
        /\ date' = d
        /\ weekday' = Weekday(d)
        /\ favorability_score' = score_of(r, d)
        /\ tone' = tone_of(score_of(r, d))
        /\ parts' = prediction_parts(r, d)
        /\ remedies' = generate_daily_remedies(r, Weekday(d), tone_of(score_of(r, d)))
        /\ lucky_data' = generate_lucky_elements(r, d, score_of(r, d))
        /\ result' = generate_daily_prediction(r, d)
    /\ pc' = "predicted"
    /\ UNCHANGED << dob, dob_rashi >>
    /\ UNCHANGED batch_vars

\* engine.generate_daily_remedies(r, w, t), called on its own
GenerateDailyRemedies ==
    /\ pc = "idle"
    /\ \E r \in RashiInputs, w \in 0..6, t \in Tones :
        /\ rashi' = r
        /\ weekday' = w
        /\ tone' = t
        /\ remedies' = generate_daily_remedies(r, w, t)
    /\ pc' = "remedies_done"
    /\ UNCHANGED << date, favorability_score, parts, lucky_data, result, dob, dob_rashi >>
    /\ UNCHANGED batch_vars

\* engine.generate_lucky_elements(r, d, score), called on its own with any
\* score generate_daily_prediction can compute
GenerateLuckyElements ==
    /\ pc = "idle"
    /\ \E r \in RashiInputs, d \in Dates, score \in (-5)..8 :
        /\ rashi' = r
        /\ date' = d
        /\ favorability_score' = score
        /\ lucky_data' = generate_lucky_elements(r, d, score)
    /\ pc' = "lucky_done"
    /\ UNCHANGED << weekday, tone, parts, remedies, result, dob, dob_rashi >>
    /\ UNCHANGED batch_vars

\* system.calculate_rashi_from_dob(d)
CalculateRashiFromDob ==
    /\ pc = "idle"
    /\ \E d \in DobDates :
        /\ dob' = d
        /\ dob_rashi' = calculate_rashi_from_dob(d)
    /\ pc' = "rashi_done"
    /\ UNCHANGED << rashi, date, weekday, favorability_score, tone, parts, remedies,
                    lucky_data, result >>
    /\ UNCHANGED batch_vars

\* The call has returned and its frame is dropped: the objects keep no state
\* from one call to the next.
Return ==
    /\ pc # "idle"
    /\ pc' = "idle"
    /\ rashi' = ""
    /\ date' = reference_date
    /\ weekday' = 0
    /\ favorability_score' = 0
    /\ tone' = ""
    /\ parts' = << >>
    /\ remedies' = << >>
    /\ lucky_data' = NoLucky
    /\ result' = NoResult
    /\ dob' = reference_date
    /\ dob_rashi' = ""
    /\ UNCHANGED batch_vars

Next ==
    \/ GenerateDailyPrediction
    \/ GenerateDailyRemedies
    \/ GenerateLuckyElements
    \/ CalculateRashiFromDob
    \/ Return

Spec == Init /\ [][Next]_vars

TypeOK ==
    /\ pc \in { "idle", "predicted", "remedies_done", "lucky_done", "rashi_done" }
    /\ pc = "predicted" =>
        /\ rashi \in RashiInputs
        /\ date \in Dates
        /\ tone \in Tones
        /\ result.prediction = JoinSpace(parts)
        /\ result.remedies = remedies
        /\ result.lucky_number = lucky_data.lucky_number
        /\ result.favorability \in { "Anukulam", "Jagratta", "Sadharanam" }
    /\ pc = "rashi_done" => dob \in DobDates /\ dob_rashi \in Rashis

-----------------------------------------------------------------------------
(* TeluguHoroscopeSystem.send_daily_horoscopes: the daily batch.           *)

\* A rashi value that cannot be hashed (a JSON array in the user file); the
\* token stands for every such value.
JSON_LIST == "<list>"

Hashable(v) == v # JSON_LIST

\* An entry of the list that is not a JSON object (a string, a number,
\* null): main() passes whatever json.load read from USERS_JSON.json
\* (line 639) without looking at the entries.
JSON_SCALAR == [ json |-> "scalar" ]

IsDict(user) == user # JSON_SCALAR

\* The entries a list is made of: complete records with a recognized sign,
\* one with an unrecognized sign, one with an unhashable sign, one lacking
\* each of the three keys, and one entry that is no record at all.
UserKinds ==
    { [ name |-> "Asha", email |-> "asha@example.com", rashi |-> "Mesham" ],
      [ name |-> "Ravi", email |-> "ravi@example.com", rashi |-> "Simham" ],
      [ name |-> "Leo", email |-> "leo@example.com", rashi |-> "Aries" ],
      [ name |-> "Lata", email |-> "lata@example.com", rashi |-> JSON_LIST ],
      [ email |-> "noname@example.com", rashi |-> "Mesham" ],
      [ name |-> "Nomail", rashi |-> "Mesham" ],
      [ name |-> "Norashi", email |-> "norashi@example.com" ],
      JSON_SCALAR }

UserLists == UNION { [ 1..n -> UserKinds ] : n \in 0..MaxUsers }

\* datetime.date.today() on the days the batch may run
TodayDates == { d \in Dates : Abs(DaysBetween(d, reference_date)) <= MaxTodayOffset }

\* what the SMTP session of send_email may do
SmtpOutcomes == { "delivered", "smtp_error" }

\* user['name'] raises TypeError on an entry that is not a dict (line 594)
RaisesTypeError(user) == ~IsDict(user)

\* user['name'], user['email'] or user['rashi'] raises KeyError (lines 594-596)
RaisesKeyError(user) ==
    /\ IsDict(user)
    /\ \E k \in { "name", "email", "rashi" } : k \notin DOMAIN user

\* rashi not in self.rashi_mapping (line 599)
invalid_rashi(r) == r \notin DOMAIN rashi_mapping

\* generate_email_body (lines 427-559): the HTML built from name, rashi and
\* the prediction of the day
prediction_data ==
    [ r \in DOMAIN rashi_mapping, d \in TodayDates |-> generate_daily_prediction(r, d) ]

generate_email_body(name, r, d) ==
    [ name |-> name, rashi |-> r, prediction_data |-> prediction_data[r, d] ]

\* send_email (lines 561-582): True when the SMTP session went through, False
\* when anything in it raised
send_email(outcome) == outcome = "delivered"

\* lines 610-611
success_count_after(count, sent) == IF sent THEN count + 1 ELSE count

\* system.send_daily_horoscopes(us, ...) is called on day d (lines 584-590)
SendDailyHoroscopes ==
    /\ bpc = "idle"
    /\ \E us \in UserLists, d \in TodayDates :
        /\ users' = us
        /\ today' = d
    /\ idx' = 0
    /\ success_count' = 0
    /\ log' = << >>
    /\ bpc' = "looping"
    /\ UNCHANGED returned
    /\ UNCHANGED engine_vars

\* one iteration whose user lacks a key: except KeyError (lines 613-614)
SkipMissingField ==
    /\ bpc = "looping"
    /\ idx < Len(users)
    /\ RaisesKeyError(users[idx + 1])
    /\ log' = Append(log, [ user |-> idx + 1, event |-> "missing_field" ])
    /\ idx' = idx + 1
    /\ UNCHANGED << bpc, users, today, success_count, returned >>
    /\ UNCHANGED engine_vars

\* one iteration whose membership test raises TypeError: except Exception
\* (lines 615-616)
SkipOnError ==
    /\ bpc = "looping"
    /\ idx < Len(users)
    /\ ~RaisesTypeError(users[idx + 1])
    /\ ~RaisesKeyError(users[idx + 1])
    /\ ~Hashable(users[idx + 1].rashi)
    /\ log' = Append(log, [ user |-> idx + 1, event |-> "error" ])
    /\ idx' = idx + 1
    /\ UNCHANGED << bpc, users, today, success_count, returned >>
    /\ UNCHANGED engine_vars

\* one iteration whose rashi is not a key of rashi_mapping: continue
\* (lines 599-601)
SkipInvalidRashi ==
    /\ bpc = "looping"
    /\ idx < Len(users)
    /\ ~RaisesTypeError(users[idx + 1])
    /\ ~RaisesKeyError(users[idx + 1])
    /\ Hashable(users[idx + 1].rashi)
    /\ invalid_rashi(users[idx + 1].rashi)
    /\ log' = Append(log, [ user |-> idx + 1, event |-> "invalid_rashi" ])
    /\ idx' = idx + 1
    /\ UNCHANGED << bpc, users, today, success_count, returned >>
    /\ UNCHANGED engine_vars

\* one iteration that builds the mail and calls send_email (lines 603-611)
SendEmail ==
    /\ bpc = "looping"
    /\ idx < Len(users)
    /\ ~RaisesTypeError(users[idx + 1])
    /\ ~RaisesKeyError(users[idx + 1])
    /\ Hashable(users[idx + 1].rashi)
    /\ ~invalid_rashi(users[idx + 1].rashi)
    /\ \E outcome \in SmtpOutcomes :
        LET user == users[idx + 1]
            html_content == generate_email_body(user.name, user.rashi, today)
            sent == send_email(outcome)
        IN  /\ log' = Append(log, [ user |-> idx + 1, event |-> "send",
                                    to |-> user.email, html_content |-> html_content,
                                    sent |-> sent ])
            /\ success_count' = success_count_after(success_count, sent)
    /\ idx' = idx + 1
    /\ UNCHANGED << bpc, users, today, returned >>
    /\ UNCHANGED engine_vars

\* one iteration whose entry is not a dict: user['name'] raises TypeError,
\* except Exception takes it, and the handler's own user.get(...) raises
\* AttributeError, which leaves send_daily_horoscopes (lines 594, 615-616)
RaiseInHandler ==
    /\ bpc = "looping"
    /\ idx < Len(users)
    /\ RaisesTypeError(users[idx + 1])
    /\ log' = Append(log, [ user |-> idx + 1, event |-> "raised" ])
    /\ bpc' = "raised"
    /\ UNCHANGED << users, today, idx, success_count, returned >>
    /\ UNCHANGED engine_vars

\* the loop is over: return success_count (lines 618-619)
ReturnSuccessCount ==
    /\ bpc = "looping"
    /\ idx = Len(users)
    /\ returned' = success_count
    /\ bpc' = "returned"
    /\ UNCHANGED << users, today, idx, success_count, log >>
    /\ UNCHANGED engine_vars

NextBatch ==
    \/ SendDailyHoroscopes
    \/ SkipMissingField
    \/ SkipOnError
    \/ SkipInvalidRashi
    \/ SendEmail
    \/ RaiseInHandler
    \/ ReturnSuccessCount

SpecBatch == Init /\ [][NextBatch]_vars

\* The call runs to its end: Python executes the loop one statement after
\* the other, and send_email returns once the SMTP session is over.
SpecBatchFair == SpecBatch /\ WF_vars(NextBatch)

-----------------------------------------------------------------------------
(* Properties                                                              *)

\* C2: for every sign and date, the favorability score of
\* generate_daily_prediction is the sum of a weekday term that is 0 or 3, a
\* hash term (seed mod 10) - 5 that lies in -5..4 and an asterism term that
\* is 0 or 1, and it is an integer in the closed range -5..8.
C2_ScoreInRange ==
    pc = "predicted" =>
        /\ weekday_term(rashi, date) \in { 0, 3 }
        /\ day_influence(date) \in (-5)..4
        /\ nakshatra_term(date) \in { 0, 1 }
        /\ favorability_score =
               weekday_term(rashi, date) + day_influence(date) + nakshatra_term(date)
        /\ favorability_score \in (-5)..8

\* a call whose score is the upper end of the range: all three terms maximal
C2_Witness ==
    /\ pc = "predicted"
    /\ favorability_score = 8
    /\ weekday_term(rashi, date) = 3

\* C3: every score falls in exactly one of the three buckets (score >= 3,
\* score <= -2, otherwise), and within one call the tone and the returned
\* favorability label are derived from the same score and agree: favorable
\* with Anukulam, challenging with Jagratta, neutral with Sadharanam.
C3_ToneLabelAgree ==
    pc = "predicted" =>
        /\ (tone = "favorable") <=> (favorability_score >= 3)
        /\ (tone = "challenging") <=> (favorability_score <= -2)
        /\ (tone = "neutral") <=> (favorability_score > -2 /\ favorability_score < 3)
        /\ Cardinality({ t \in Tones : t = tone }) = 1
        /\ (tone = "favorable") <=> (result.favorability = "Anukulam")
        /\ (tone = "challenging") <=> (result.favorability = "Jagratta")
        /\ (tone = "neutral") <=> (result.favorability = "Sadharanam")

\* a call whose score sits on the favorable threshold
C3_Witness ==
    /\ pc = "predicted"
    /\ favorability_score = 3
    /\ tone = "favorable"
    /\ result.favorability = "Anukulam"

NoDuplicates(seq) == \A i, j \in 1..Len(seq) : seq[i] = seq[j] => i = j

BoolToInt(b) == IF b THEN 1 ELSE 0

\* C4: for every sign, weekday and tone the remedies list has length 2, 3
\* or 4: the first two entries of the weekday's remedy list in order, then
\* the sign's remedy iff the sign has a curated one, then last the fallback
\* remedy iff the tone is challenging; no entry appears twice.
C4_RemediesShape ==
    pc \in { "predicted", "remedies_done" } =>
        LET curated == rashi \in { "Vrishabham", "Simham", "Dhanussu" }
            hard == tone = "challenging"
            n == Len(remedies)
        IN  /\ n = 2 + BoolToInt(curated) + BoolToInt(hard)
            /\ n \in { 2, 3, 4 }
            /\ remedies[1] = weekday_remedies[weekday + 1][1]
            /\ remedies[2] = weekday_remedies[weekday + 1][2]
            /\ curated => remedies[3] = rashi_remedies[rashi]
            /\ ~curated => \A i \in 1..n, s \in DOMAIN rashi_remedies :
                               remedies[i] # rashi_remedies[s]
            /\ hard => remedies[n] = FALLBACK_REMEDY
            /\ ~hard => \A i \in 1..n : remedies[i] # FALLBACK_REMEDY
            /\ NoDuplicates(remedies)
            /\ pc = "predicted" => result.remedies = remedies

\* a call inside generate_daily_prediction that returns all four entries
C4_Witness ==
    /\ pc = "predicted"
    /\ rashi = "Simham"
    /\ tone = "challenging"
    /\ Len(result.remedies) = 4

\* the non-negative residue of a modulo 9
Residue9(a) == CHOOSE r \in 0..8 : \E q \in (-9)..9 : a = 9 * q + r

\* C5: for every date and every score in -5..8, also when day + score is
\* negative or zero, the lucky number is one of the strings "1".."9" and is
\* ((day + score) mod 9) + 1 with the non-negative modulus.
C5_LuckyNumber ==
    pc \in { "predicted", "lucky_done" } =>
        /\ lucky_data.lucky_number \in { "1", "2", "3", "4", "5", "6", "7", "8", "9" }
        /\ lucky_data.lucky_number =
               Digit(Residue9(date.day + favorability_score) + 1)
        /\ pc = "predicted" => result.lucky_number = lucky_data.lucky_number

\* a call of generate_daily_prediction where day + score is negative
C5_Witness ==
    /\ pc = "predicted"
    /\ date.day + favorability_score < 0
    /\ result.lucky_number \in { "1", "2", "3", "4", "5", "6", "7", "8", "9" }

\* C6: the lunar-day label and the moon-phase label are periodic with
\* period 30 days, also before the reference date 2024-01-11: the labels of
\* date and of date + 30 days are equal, and the offsets used are in 0..29.
C6_Period30 ==
    pc = "predicted" =>
        /\ lunar_day(date) \in 0..29
        /\ moon_offset(date) \in 0..29
        /\ result.panchang.tithi = get_tithi(date)
        /\ result.panchang.moon_phase = get_moon_phase(date)
        /\ \A d2 \in Dates :
               DaysBetween(d2, date) = 30 =>
                   /\ get_tithi(d2) = result.panchang.tithi
                   /\ get_moon_phase(d2) = result.panchang.moon_phase

\* a date before the reference date whose date + 30 days is after it
C6_Witness ==
    /\ pc = "predicted"
    /\ DaysBetween(date, reference_date) < 0
    /\ \E d2 \in Dates :
           /\ DaysBetween(d2, date) = 30
           /\ DaysBetween(d2, reference_date) > 0
           /\ get_tithi(d2) = result.panchang.tithi

\* C7: the asterism index (days since 2000-01-01 times 13, mod 27) is in
\* 0..26, also before the epoch, and dates 27 days apart get the same
\* asterism.
C7_Period27 ==
    pc = "predicted" =>
        /\ nakshatra_index_of(date) \in 0..26
        /\ result.panchang.nakshatra = nakshatras[nakshatra_index_of(date) + 1]
        /\ \A d2 \in Dates :
               DaysBetween(d2, date) = 27 =>
                   get_nakshatra(d2) = result.panchang.nakshatra

\* a date before the epoch whose date + 27 days is after it
C7_Witness ==
    /\ pc = "predicted"
    /\ DaysBetween(date, epoch_date) < 0
    /\ \E d2 \in Dates :
           /\ DaysBetween(d2, date) = 27
           /\ DaysBetween(d2, epoch_date) > 0
           /\ get_nakshatra(d2) = result.panchang.nakshatra

\* The twelve signs in zodiac order with the first day of each sign's range
\* in the standard tropical zodiac: <<sign, month, day>>.
TropicalStarts ==
    << <<"Mesham", 3, 21>>, <<"Vrishabham", 4, 20>>, <<"Mithunam", 5, 21>>,
       <<"Karkatakam", 6, 21>>, <<"Simham", 7, 23>>, <<"Kanya", 8, 23>>,
       <<"Tula", 9, 23>>, <<"Vrischikam", 10, 23>>, <<"Dhanussu", 11, 22>>,
       <<"Makaram", 12, 22>>, <<"Kumbham", 1, 20>>, <<"Meenam", 2, 19>> >>

\* (m1, d1) is not later in the year than (m2, d2)
NotAfter(m1, d1, m2, d2) == m1 < m2 \/ (m1 = m2 /\ d1 <= d2)

\* The sign whose tropical range holds (month, day): the one with the latest
\* start not after it, or Makaram (which spans the new year) before 20 January.
TropicalSign(month, day) ==
    LET started == { i \in 1..12 :
                        NotAfter(TropicalStarts[i][2], TropicalStarts[i][3], month, day) }
    IN  IF started = {} THEN "Makaram"
        ELSE TropicalStarts[CHOOSE i \in started :
                 \A j \in started :
                     NotAfter(TropicalStarts[j][2], TropicalStarts[j][3],
                              TropicalStarts[i][2], TropicalStarts[i][3])][1]

\* the sign after s in zodiac order
NextSign(s) ==
    LET i == CHOOSE k \in 1..12 : TropicalStarts[k][1] = s
    IN  TropicalStarts[(i % 12) + 1][1]

\* the day after d within the leap year of DobDates, 31 December wrapping
NextDob(d) ==
    IF d.month = 12 /\ d.day = 31 THEN MkDate(d.year, 1, 1)
    ELSE CHOOSE e \in DobDates : ToOrdinal(e) = ToOrdinal(d) + 1

\* C8: calculate_rashi_from_dob is total from (month, day) to the twelve
\* signs with the standard tropical boundaries: 21 March and 19 April are
\* Mesham, 20 April is Vrishabham, each sign's range starts the day after
\* the previous sign's range ends, and no (month, day) is matched by two
\* ranges.
C8_RashiFromDob ==
    pc = "rashi_done" =>
        /\ dob_rashi \in Rashis
        /\ dob_rashi = TropicalSign(dob.month, dob.day)
        /\ Cardinality({ i \in 1..Len(rashi_ranges) :
                            RangeMatches(rashi_ranges[i], dob.month, dob.day) }) <= 1
        /\ calculate_rashi_from_dob(NextDob(dob)) \in { dob_rashi, NextSign(dob_rashi) }
        /\ (dob.month = 3 /\ dob.day = 21) => dob_rashi = "Mesham"
        /\ (dob.month = 4 /\ dob.day = 19) => dob_rashi = "Mesham"
        /\ (dob.month = 4 /\ dob.day = 20) => dob_rashi = "Vrishabham"

\* the last day of Mesham: the next day is the first of Vrishabham
C8_Witness ==
    /\ pc = "rashi_done"
    /\ dob.month = 4 /\ dob.day = 19
    /\ dob_rashi = "Mesham"
    /\ calculate_rashi_from_dob(NextDob(dob)) = "Vrishabham"

\* C9: the moon-phase label is chosen from phase = (day offset mod 30) / 30
\* by bands in this order: phase < 0.03 or phase > 0.97 is new; else
\* 0.22 < phase < 0.28 is full; else phase < 0.25 is waxing; else waning.
\* In the overlap (0.22, 0.25) the label is full, never waxing, and at the
\* reference new-moon date (offset 0) the label is new with lunar-day index 0
\* in the waxing half.
C9_MoonBands ==
    pc = "predicted" =>
        LET k == DaysBetween(date, reference_date) % 30
            label == result.panchang.moon_phase
            isNew == 100 * k < 3 * 30 \/ 100 * k > 97 * 30
            isFull == 22 * 30 < 100 * k /\ 100 * k < 28 * 30
            isLow == 100 * k < 25 * 30
        IN  /\ isNew => label = NEW_MOON
            /\ (~isNew /\ isFull) => label = FULL_MOON
            /\ (~isNew /\ ~isFull /\ isLow) => label = WAXING
            /\ (~isNew /\ ~isFull /\ ~isLow) => label = WANING
            /\ (22 * 30 < 100 * k /\ 100 * k < 25 * 30) =>
                   (label = FULL_MOON /\ label # WAXING)
            /\ date = reference_date =>
                   /\ label = NEW_MOON
                   /\ tithi_index(date) = 0
                   /\ paksha(date) = "Shukla Paksham"
                   /\ result.panchang.tithi = "Shukla Paksham Padyami"

\* a date whose phase lies in the overlap of the full and waxing bands
C9_Witness ==
    /\ pc = "predicted"
    /\ 22 * 30 < 100 * moon_offset(date)
    /\ 100 * moon_offset(date) < 25 * 30
    /\ result.panchang.moon_phase = FULL_MOON

\* C10 as claimed: with a sign that is not one of the twelve, the result
\* equals, field for field, the result for the default sign Mesham.
C10_UnknownEqualsDefault ==
    (pc = "predicted" /\ rashi \notin Rashis) =>
        result = generate_daily_prediction("Mesham", date)

\* C10 as amended: with a sign that is not one of the twelve the call does
\* not fail, and every field of the result except lucky_color equals that
\* field of the result for Mesham; lucky_color is the single default colour
\* Telupu, which is none of Mesham's colours.
C10_UnknownEqualsDefaultButColor ==
    (pc = "predicted" /\ rashi \notin Rashis) =>
        LET base == generate_daily_prediction("Mesham", date)
        IN  /\ DOMAIN result = DOMAIN base
            /\ \A f \in DOMAIN result \ { "lucky_color" } : result[f] = base[f]
            /\ result.lucky_color = "Telupu"
            /\ result.lucky_color # base.lucky_color

\* a call with an unrecognized sign that returned a full result
C10_Witness ==
    /\ pc = "predicted"
    /\ rashi = "Aries"
    /\ result.lucky_color = "Telupu"
    /\ result.remedies = generate_daily_prediction("Mesham", date).remedies

\* the asterisms that have a curated effect phrase
CuratedNakshatras ==
    { "Ashwini", "Rohini", "Pushyami", "Makha", "Hasta", "Swati", "Anuradha",
      "Moola", "Shravanam", "Shatabhisham", "Revati" }

\* the sentence naming an asterism and its effect
NakshatraSentence(nak) == nak \o " nakshatram " \o nakshatra_effects[nak] \o " testundi."

\* C11: the prediction text is the single-space join of fragments in a
\* fixed order: the weekday opening first; then exactly two area sentences,
\* for the sign's first and second life area in that order; then the
\* asterism sentence iff the asterism has a curated effect; then at most one
\* moon sentence, the full-moon one iff the label is full, the new-moon one
\* iff it is new, never both.  There are between 3 and 5 fragments.
C11_FragmentOrder ==
    pc = "predicted" =>
        LET n == Len(parts)
            nak == result.panchang.nakshatra
            curated == nak \in CuratedNakshatras
            full == result.panchang.moon_phase = FULL_MOON
            new == result.panchang.moon_phase = NEW_MOON
            areas == rashi_info(rashi).areas
            has(s) == \E i \in 1..n : parts[i] = s
        IN  /\ n = 3 + BoolToInt(curated) + BoolToInt(full \/ new)
            /\ n \in 3..5
            /\ parts[1] = weekday_openings[weekday + 1]
            /\ parts[2] = Format(template_of(tone, date), area_telugu(areas[1]))
            /\ parts[3] = Format(template_of(tone, date), area_telugu(areas[2]))
            /\ curated => parts[4] = NakshatraSentence(nak)
            /\ ~curated => \A c \in CuratedNakshatras : ~has(NakshatraSentence(c))
            /\ ~(full /\ new)
            /\ full => (parts[n] = FULL_MOON_SENTENCE /\ ~has(NEW_MOON_SENTENCE))
            /\ new => (parts[n] = NEW_MOON_SENTENCE /\ ~has(FULL_MOON_SENTENCE))
            /\ ~(full \/ new) => (~has(FULL_MOON_SENTENCE) /\ ~has(NEW_MOON_SENTENCE))
            /\ result.prediction =
                   parts[1] \o " " \o parts[2] \o " " \o parts[3]
                       \o (IF n >= 4 THEN " " \o parts[4] ELSE "")
                       \o (IF n >= 5 THEN " " \o parts[5] ELSE "")

\* a call that appends all five fragments, the last one the full-moon sentence
C11_Witness ==
    /\ pc = "predicted"
    /\ Len(parts) = 5
    /\ parts[4] = NakshatraSentence(result.panchang.nakshatra)
    /\ parts[5] = FULL_MOON_SENTENCE

\* C12: for each of the twelve signs and each of its first two life areas,
\* the area sentence is rendered with the area's localized label, never with
\* the internal area key: every such area has an entry in the localization
\* table.
C12_AreasLocalized ==
    (pc = "predicted" /\ rashi \in Rashis) =>
        \A i \in 1..2 :
            LET a == rashi_base[rashi].areas[i]
            IN  /\ a \in DOMAIN area_telugu_table
                /\ parts[i + 1] = Format(template_of(tone, date), area_telugu_table[a])
                /\ parts[i + 1] # Format(template_of(tone, date), a)

\* C13: the weekday term of the score is +3 exactly when the date's weekday
\* index (Monday = 0 .. Sunday = 6) is in the sign's favorable-day set, else
\* 0, and the favorable days are the ones the table documents: for
\* Vrishabham Thursday and Friday and no other weekday, for Simham Sunday,
\* for Dhanussu Thursday.
C13_DocumentedFavorableDays ==
    (pc = "predicted" /\ rashi \in Rashis) =>
        LET term == weekday_term(rashi, date)
            thursday == 3
            friday == 4
            sunday == 6
        IN  /\ term \in { 0, 3 }
            /\ (term = 3) <=> InList(weekday, rashi_base[rashi].favorable_days)
            /\ rashi = "Vrishabham" => ((term = 3) <=> (weekday \in { thursday, friday }))
            /\ rashi = "Simham" => ((term = 3) <=> (weekday = sunday))
            /\ rashi = "Dhanussu" => ((term = 3) <=> (weekday = thursday))

\* the twelve recognized signs
TwelveSigns ==
    { "Mesham", "Vrishabham", "Mithunam", "Karkatakam", "Simham", "Kanya",
      "Tula", "Vrischikam", "Dhanussu", "Makaram", "Kumbham", "Meenam" }

\* a user record with name, email and a recognized sign
Sendable(u) ==
    /\ IsDict(u)
    /\ { "name", "email", "rashi" } \subseteq DOMAIN u
    /\ u.rashi \in TwelveSigns

\* C14: send_daily_horoscopes takes every user of the list once, in list
\* order, and terminates returning success_count; a user whose sign is not
\* in rashi_mapping or whose record lacks name, email or rashi is skipped
\* with no send attempted; a failed send or an exception for one user does
\* not keep later users from being processed; the returned count is the
\* number of users for whom send_email returned True, between 0 and
\* len(users).
C14_CountInv ==
    /\ bpc # "raised"
    /\ bpc \in { "looping", "returned" } =>
            /\ idx \in 0..Len(users)
            /\ Len(log) = idx
            /\ \A i \in 1..idx : log[i].user = i
            /\ \A i \in 1..idx : (log[i].event = "send") <=> Sendable(users[i])
            /\ \A i \in 1..idx : log[i].event = "send" => log[i].to = users[i].email
            /\ success_count =
                   Cardinality({ i \in 1..idx : log[i].event = "send" /\ log[i].sent })
            /\ success_count \in 0..Len(users)
            /\ bpc = "returned" =>
                   /\ idx = Len(users)
                   /\ returned = success_count
                   /\ returned \in 0..Len(users)

\* C14, with termination: the call never ends by an exception, the counts
\* above hold throughout, and a call that has entered the loop reaches its
\* return.
C14_BatchCount == []C14_CountInv /\ ((bpc = "looping") ~> (bpc = "returned"))

\* C15: the sign tables are aligned: rashi_mapping, rashi_base and
\* rashi_colors have the same twelve keys, so a sign that passes the
\* validation of send_daily_horoscopes takes neither the default-sign
\* fallback nor the default-colour fallback, and the lucky colour is one of
\* that sign's own colours.
C15_TablesAligned ==
    /\ DOMAIN rashi_mapping = DOMAIN rashi_base
    /\ DOMAIN rashi_mapping = DOMAIN rashi_colors
    /\ Cardinality(DOMAIN rashi_mapping) = 12
    /\ (pc = "predicted" /\ ~invalid_rashi(rashi)) =>
            /\ rashi \in DOMAIN rashi_base
            /\ rashi \in DOMAIN rashi_colors
            /\ rashi_info(rashi) = rashi_base[rashi]
            /\ colors_of(rashi) = rashi_colors[rashi]
            /\ \E k \in 1..Len(rashi_colors[rashi]) :
                   result.lucky_color = rashi_colors[rashi][k]
            /\ lucky_data.lucky_color = result.lucky_color

\* a validated sign other than the default one, whose lucky colour is not
\* the first of its list
C15_Witness ==
    /\ pc = "predicted"
    /\ ~invalid_rashi(rashi)
    /\ rashi # DEFAULT_RASHI
    /\ \E k \in 2..Len(rashi_colors[rashi]) :
           result.lucky_color = rashi_colors[rashi][k]

\* C16: over whole-day offsets, of the thirty offsets of a cycle exactly
\* offset 0 is labelled new moon, exactly offsets 7 and 8 full moon, offsets
\* 1..6 waxing and offsets 9..29 waning; offset 29 is waning, since 29/30 is
\* not above 0.97; and the new-moon and full-moon sentences are fragments of
\* the prediction text on those offsets only.
C16_WholeDayBands ==
    pc = "predicted" =>
        LET k == DaysBetween(date, reference_date) % 30
            label == result.panchang.moon_phase
            has(sentence) == \E i \in 1..Len(parts) : parts[i] = sentence
        IN  /\ k \in 0..29
            /\ label \in { NEW_MOON, FULL_MOON, WAXING, WANING }
            /\ label = NEW_MOON <=> k = 0
            /\ label = FULL_MOON <=> k \in { 7, 8 }
            /\ label = WAXING <=> k \in 1..6
            /\ label = WANING <=> k \in 9..29
            /\ k = 29 => label = WANING
            /\ has(NEW_MOON_SENTENCE) <=> k = 0
            /\ has(FULL_MOON_SENTENCE) <=> k \in { 7, 8 }
            /\ result.prediction = JoinSpace(parts)

\* the last day of a cycle: labelled waning, with no moon sentence in the text
C16_Witness ==
    /\ pc = "predicted"
    /\ DaysBetween(date, reference_date) % 30 = 29
    /\ result.panchang.moon_phase = WANING
    /\ \A i \in 1..Len(parts) : parts[i] \notin { NEW_MOON_SENTENCE, FULL_MOON_SENTENCE }

====
